---- MODULE Spec2Model ----
(***************************************************************************)
(* The upload-to-completion flow of the GST automation client: the page    *)
(* (DashboardPage / Home) with its view state, the FileUpload drop target  *)
(* with its useFileUpload hook instance, and the ProcessingStatus poller   *)
(* with its polling effect.                                                *)
(*                                                                         *)
(* A step is one event-loop task: a user event, a timer tick, or the       *)
(* continuation of an awaited request.  The React commit that follows the  *)
(* state updates of a task (mounting and unmounting of components, effect  *)
(* cleanup and effect run) is part of the same step (Commit).              *)
(*                                                                         *)
(* Spec is the upload flow in an established session.  SpecAuth is the     *)
(* session store (AuthProvider) with the dashboard's gate on it, SpecView  *)
(* the display state of one ProcessingStatus instance, SpecHist the        *)
(* history view (FileHistory); each leaves the other parts at rest.        *)
(***************************************************************************)
EXTENDS Integers, FiniteSets, Sequences, TLC

\* ---- bounds of the model
MaxId == 2        \* the server hands out upload identifiers 0..MaxId
MaxDrops == 2     \* drops of a file on the drop target
MaxPolls == 2     \* status-fetch requests issued in total
MaxSwitch == 2    \* clicks on the other tab
MaxCalls == 2     \* calls of login and signup
MaxMounts == 3    \* mounts of the history view
MaxChanges == 3   \* changes of the server's upload list
MaxViewPolls == 3 \* status-fetch requests of the displayed poller

\* ---- program constants
MAX_FILE_SIZE == 50 * 1024 * 1024
SizeMessage == "File size exceeds 10MB limit"
UploadFailed == "Upload failed"
ServerDetail == "server error detail"

\* JS null for uploadId (number | null) and error (string | null)
Null == -1
NoError == "<null>"

Ids == 0..MaxId
Pages == {"dashboard", "home"}
Tabs == {"upload", "history"}
Terminal == {"completed", "failed"}
Statuses == {"pending", "processing", "completed", "failed"}
NonTerminal == Statuses \ Terminal
\* a dropped file: its size in bytes, or NoFile when acceptedFiles is empty
NoFile == -1
Sizes == {NoFile, MAX_FILE_SIZE, MAX_FILE_SIZE + 1, 60 * 1024 * 1024}
ErrorMessages == {UploadFailed, ServerDetail}

VARIABLES
  page,       \* which page component is mounted: "dashboard" or "home"
  uploadId,   \* page state: number | null
  status,     \* page state: string
  error,      \* page state: string | null
  activeTab,  \* dashboard state: 'upload' | 'history' (home: always upload)
  fu,         \* the FileUpload instance: [mounted, inst, uploading]
  uploads,    \* upload requests in flight: [inst, size]
  poller,     \* the ProcessingStatus instance: [mounted, inst, gen, uploadId]
  timers,     \* active intervals, one per effect run: [inst, gen, id]
  polls,      \* status-fetch requests in flight: [inst, gen, id, seq, ans]
  pollSeq,    \* number of status-fetch requests issued so far
  srv,        \* server: status of each upload record ("none": no record)
  notified,   \* history: the responses that invoked onStatusUpdate
  termRecv,   \* history: [inst, id] of terminal responses handled
  pollFails,  \* history: failed polls swallowed since the last answered one
  nDrops,     \* number of drops so far
  nSwitch     \* number of tab clicks so far

\* the session store (AuthProvider) and the dashboard's gate on it
VARIABLES
  token,       \* localStorage 'access_token': a token or NoToken
  user,        \* AuthContext state: User | null
  loading,     \* AuthContext state: boolean
  authMounted, \* the mount effect of AuthProvider has run
  authReqs,    \* auth requests in flight: [kind, api, call, via, hdr, prev]
  thrown,      \* history: errors thrown to the callers of login and signup
  nCalls,      \* number of login and signup calls so far
  route,       \* the route shown by the router
  dash         \* what DashboardPage rendered last

sessionVars == <<token, user, loading, authMounted, authReqs, thrown, nCalls,
                 route, dash>>

flowVars == <<page, uploadId, status, error, activeTab, fu, uploads, poller,
              timers, polls, pollSeq, srv, notified, termRecv, pollFails,
              nDrops, nSwitch>>

\* what one ProcessingStatus instance displays
VARIABLES
  disp,       \* component state: [status, progress, message]
  vmounted,   \* the instance is mounted
  vtimer,     \* its interval is active
  vreqs,      \* its status-fetch requests in flight, by issue number
  vseq,       \* number of requests it has issued
  vshown,     \* history: issue number of the response on display (0: none)
  vconsumed,  \* history: issue numbers of the responses with data it handled
  voverlap    \* history: a request was issued while another was in flight

viewVars == <<disp, vmounted, vtimer, vreqs, vseq, vshown, vconsumed, voverlap>>

\* the history view (FileHistory) of the dashboard
VARIABLES
  hist,     \* the instance: [mounted, inst, uploads, loading, error]
  hreqs,    \* list-fetch requests in flight: [inst]
  srvList,  \* server: version of the user's upload list
  hissued   \* history: number of list-fetch requests issued by each instance

histVars == <<hist, hreqs, srvList, hissued>>

\* history of the session store
VARIABLES
  outAt     \* nCalls at the latest logout, Never before the first one

obsVars == <<outAt>>

vars == <<flowVars, sessionVars, viewVars, histVars, obsVars>>

\* JS null for the token and the user, undefined for a response detail
NoToken == "<no token>"
NoUser == "<no user>"
NoDetail == "<undefined>"
Tokens == {"tokenA", "tokenB"}
TheUser == "user1"

\* DashboardPage: spinner while authLoading, null without a user, else content
DashboardView(rt, ld, usr) ==
  IF rt # "/dashboard" THEN "unmounted"
  ELSE IF ld THEN "spinner"
  ELSE IF usr = NoUser THEN "null"
  ELSE "content"

\* JS truthiness of a number | null and of a string | null
TruthyId(u) == u # Null /\ u # 0
TruthyStr(s) == s # NoError /\ s # ""

\* ---- render guards of the upload tab
\* a submission-unit guard without the !error test
ShowFileUpload_NoErrorTest(uid, err, tab) == tab = "upload" /\ ~TruthyId(uid)
\* a progress-view guard without the status test
ShowProcessing_NoStatusTest(uid, st, tab) == tab = "upload" /\ TruthyId(uid)

ShowError(err, tab) == tab = "upload" /\ TruthyStr(err)
ShowFileUpload(uid, err, tab) ==
  tab = "upload" /\ ~TruthyId(uid) /\ ~TruthyStr(err)
ShowProcessing(uid, st, tab) ==
  tab = "upload" /\ TruthyId(uid) /\ st = "processing"
ShowDownload(uid, st, tab) ==
  tab = "upload" /\ TruthyId(uid) /\ st = "completed"
ShowFailed(uid, st, tab) ==
  tab = "upload" /\ TruthyId(uid) /\ st = "failed"

\* an effect without cleanup
Cleanup_Missing(ts, p) == ts

\* a cleanup that clears a handle only on the first run of an instance
Cleanup_FirstRunOnly(ts, p) ==
  IF p.gen = 1 THEN ts \ {[inst |-> p.inst, gen |-> p.gen, id |-> p.uploadId]}
  ELSE ts

\* the effect's cleanup, () => clearInterval(intervalId), for the effect run
\* of poller p, applied to the active intervals ts
Cleanup(ts, p) == ts \ {[inst |-> p.inst, gen |-> p.gen, id |-> p.uploadId]}

TimerOf(p) == [inst |-> p.inst, gen |-> p.gen, id |-> p.uploadId]
NewPoll(p, n) ==
  [inst |-> p.inst, gen |-> p.gen, id |-> p.uploadId, seq |-> n, ans |-> "none"]

\* The React commit after the page state became <<uid, st, err, tab>>:
\* FileUpload and ProcessingStatus are mounted, kept or unmounted by the
\* render guards; the polling effect is cleaned up on unmount, and cleaned up
\* and run again when the page re-rendered (handleStatusUpdate is a new
\* function on every render of the page, and uploadId may have changed).
\* basePolls: the requests left in flight by the handler; cleared: the
\* intervals the handler cleared itself; upl: the busy flag the handler left
\* in the mounted hook instance.
Commit(uid, st, err, tab, basePolls, cleared, upl) ==
  LET rerender == <<uid, st, err, tab>> # <<uploadId, status, error, activeTab>>
      showU == ShowFileUpload(uid, err, tab)
      showP == ShowProcessing(uid, st, tab)
      mountP == showP /\ ~poller.mounted
      rerunP == showP /\ poller.mounted /\ rerender
      unmountP == ~showP /\ poller.mounted
      newP == IF mountP
                THEN [mounted |-> TRUE, inst |-> poller.inst + 1, gen |-> 1,
                      uploadId |-> uid]
              ELSE IF rerunP
                THEN [poller EXCEPT !.gen = @ + 1, !.uploadId = uid]
              ELSE IF unmountP
                THEN [poller EXCEPT !.mounted = FALSE]
              ELSE poller
      timers0 == timers \ cleared
  IN  /\ (mountP \/ rerunP) => pollSeq < MaxPolls
      /\ uploadId' = uid
      /\ status' = st
      /\ error' = err
      /\ activeTab' = tab
      /\ fu' = IF showU /\ ~fu.mounted
                 THEN [mounted |-> TRUE, inst |-> fu.inst + 1, uploading |-> FALSE]
               ELSE IF ~showU /\ fu.mounted
                 THEN [fu EXCEPT !.mounted = FALSE, !.uploading = FALSE]
               ELSE [fu EXCEPT !.uploading = upl]
      /\ poller' = newP
      /\ timers' = IF mountP \/ rerunP
                     THEN Cleanup(timers0, poller) \cup {TimerOf(newP)}
                   ELSE IF unmountP
                     THEN Cleanup(timers0, poller)
                   ELSE timers0
      /\ polls' = IF mountP \/ rerunP
                    THEN basePolls \cup {NewPoll(newP, pollSeq + 1)}
                  ELSE basePolls
      /\ pollSeq' = IF mountP \/ rerunP THEN pollSeq + 1 ELSE pollSeq

\* useState(0), useState('processing'), useState('Initializing...')
NewDisplay ==
  [status |-> "processing", progress |-> 0, message |-> "Initializing..."]

\* no ProcessingStatus display is followed
ViewIdle ==
  /\ disp = NewDisplay
  /\ vmounted = FALSE /\ vtimer = FALSE
  /\ vreqs = {} /\ vseq = 0
  /\ vshown = 0 /\ vconsumed = {} /\ voverlap = FALSE

\* the list before any response: useState<UploadResponse[]>([])
NoList == -1

\* FileHistory is not rendered (the upload tab is active)
HistIdle ==
  /\ hist = [mounted |-> FALSE, inst |-> 0, uploads |-> NoList,
             loading |-> TRUE, error |-> ""]
  /\ hreqs = {}
  /\ srvList = 0
  /\ hissued = [i \in 1..MaxMounts |-> 0]

\* no logout has run
Never == -1

\* an established session showing the page
Established ==
  /\ outAt = Never
  /\ token = "tokenA"
  /\ user = TheUser
  /\ loading = FALSE
  /\ authMounted = TRUE
  /\ authReqs = {}
  /\ thrown = {}
  /\ nCalls = 0
  /\ route = IF page = "dashboard" THEN "/dashboard" ELSE "/"
  /\ dash = DashboardView(route, loading, user)

\* the dashboard's flow state before any drop; shown: FileUpload is rendered
FlowAtRest(shown) ==
  /\ page = "dashboard"
  /\ uploadId = Null /\ status = "" /\ error = NoError /\ activeTab = "upload"
  /\ fu = [mounted |-> shown, inst |-> IF shown THEN 1 ELSE 0,
           uploading |-> FALSE]
  /\ uploads = {}
  /\ poller = [mounted |-> FALSE, inst |-> 0, gen |-> 0, uploadId |-> Null]
  /\ timers = {} /\ polls = {} /\ pollSeq = 0
  /\ srv = [i \in Ids |-> "none"]
  /\ notified = {} /\ termRecv = {} /\ pollFails = 0
  /\ nDrops = 0 /\ nSwitch = 0

Init ==
  /\ page \in Pages
  /\ uploadId = Null
  /\ status = ""
  /\ error = NoError
  /\ activeTab = "upload"
  /\ fu = [mounted |-> TRUE, inst |-> 1, uploading |-> FALSE]
  /\ uploads = {}
  /\ poller = [mounted |-> FALSE, inst |-> 0, gen |-> 0, uploadId |-> Null]
  /\ timers = {}
  /\ polls = {}
  /\ pollSeq = 0
  /\ srv = [i \in Ids |-> "none"]
  /\ notified = {}
  /\ termRecv = {}
  /\ pollFails = 0
  /\ nDrops = 0
  /\ nSwitch = 0
  /\ Established
  /\ ViewIdle
  /\ HistIdle

\* ---- handleUploadError
\* an error handler that keeps the active upload
handleUploadError_KeepsUpload(msg, upl) ==
  Commit(uploadId, status, msg, activeTab, polls, {}, upl)

\* setError(errorMessage); setUploadId(null); setStatus('')
handleUploadError(msg, upl) ==
  Commit(Null, "", msg, activeTab, polls, {}, upl)

\* ---- FileUpload.onDrop
\* a size check that also rejects a file of exactly the ceiling
SizeRejected_Inclusive(size) == size >= MAX_FILE_SIZE

SizeRejected(size) == size > MAX_FILE_SIZE

onDrop(size) ==
  /\ fu.mounted
  /\ ~fu.uploading
  /\ nDrops < MaxDrops
  /\ IF size = NoFile
       THEN UNCHANGED flowVars
     ELSE IF SizeRejected(size)
       THEN /\ handleUploadError(SizeMessage, fu.uploading)
            /\ nDrops' = nDrops + 1
            /\ UNCHANGED <<page, uploads, srv, notified, termRecv, pollFails, nSwitch>>
     ELSE /\ fu' = [fu EXCEPT !.uploading = TRUE]
          /\ uploads' = uploads \cup
               {[inst |-> fu.inst, size |-> size]}
          /\ nDrops' = nDrops + 1
          /\ UNCHANGED <<page, uploadId, status, error, activeTab, poller,
                         timers, polls, pollSeq, srv, notified, termRecv, pollFails,
                         nSwitch>>

\* the busy flag after upload()'s finally block ran for hook instance i
AfterFinally(i) ==
  IF fu.mounted /\ fu.inst = i THEN FALSE ELSE fu.uploading

\* the upload request of u is answered with success and a fresh identifier
UploadSuccess(u, id) ==
  /\ u \in uploads
  /\ srv[id] = "none"
  /\ srv' = [srv EXCEPT ![id] = "processing"]
  /\ uploads' = uploads \ {u}
  /\ Commit(id, "processing", NoError, activeTab, polls, {}, AfterFinally(u.inst))
  /\ UNCHANGED <<page, notified, termRecv, pollFails, nDrops, nSwitch>>

\* the upload request of u fails (network error or server rejection)
UploadError(u, msg) ==
  /\ u \in uploads
  /\ uploads' = uploads \ {u}
  /\ handleUploadError(msg, AfterFinally(u.inst))
  /\ UNCHANGED <<page, srv, notified, termRecv, pollFails, nDrops, nSwitch>>

\* ---- page handlers
onDismiss ==
  /\ ShowError(error, activeTab)
  /\ Commit(uploadId, status, NoError, activeTab, polls, {}, fu.uploading)
  /\ UNCHANGED <<page, uploads, srv, notified, termRecv, pollFails, nDrops, nSwitch>>

\* a reset that forgets setActiveTab('history')
ResetTab_Stays == activeTab

\* handleReset: the tab after a reset (Home has no tab state)
ResetTab == IF page = "dashboard" THEN "history" ELSE activeTab

handleReset ==
  /\ ShowDownload(uploadId, status, activeTab) \/ ShowFailed(uploadId, status, activeTab)
  /\ Commit(Null, "", NoError, ResetTab, polls, {}, fu.uploading)
  /\ UNCHANGED <<page, uploads, srv, notified, termRecv, pollFails, nDrops, nSwitch>>

setActiveTab(t) ==
  /\ page = "dashboard"
  /\ t # activeTab
  /\ nSwitch < MaxSwitch
  /\ nSwitch' = nSwitch + 1
  /\ Commit(uploadId, status, error, t, polls, {}, fu.uploading)
  /\ UNCHANGED <<page, uploads, srv, notified, termRecv, pollFails, nDrops>>

\* ---- ProcessingStatus: the polling effect
\* setInterval(pollStatus, POLL_INTERVAL) fires for an active interval; the
\* closure polls the uploadId of the effect run that created the interval
Tick(t) ==
  /\ t \in timers
  /\ pollSeq < MaxPolls
  /\ pollSeq' = pollSeq + 1
  /\ polls' = polls \cup
       {[inst |-> t.inst, gen |-> t.gen, id |-> t.id, seq |-> pollSeq + 1,
         ans |-> "none"]}
  /\ UNCHANGED <<page, uploadId, status, error, activeTab, fu, uploads, poller,
                 timers, srv, notified, termRecv, pollFails, nDrops, nSwitch>>

\* a terminal test that forgets Status.FAILED
Reported_OnlyCompleted(newStatus) == newStatus = "completed"
\* a poller that never reports to the page
Reported_Never(newStatus) == FALSE

\* pollStatus, line 39: the statuses reported to the parent
Reported(newStatus) == newStatus \in Terminal

\* pollStatus, line 41: clearInterval(intervalId) clears the interval of the
\* effect run whose closure handles the response
ClearedBy(r) == {[inst |-> r.inst, gen |-> r.gen, id |-> r.id]}

\* a catch block that gives up polling: it clears the closure's interval
PollCatch_Stops(r) ==
  /\ polls' = polls \ {r}
  /\ pollFails' = pollFails + 1
  /\ timers' = timers \ {[inst |-> r.inst, gen |-> r.gen, id |-> r.id]}
  /\ UNCHANGED <<page, uploadId, status, error, activeTab, fu, uploads,
                 poller, pollSeq, srv, notified, termRecv, nDrops, nSwitch>>

\* pollStatus, lines 44-46: the catch block logs the error and nothing else
PollCatch(r) ==
  /\ polls' = polls \ {r}
  /\ pollFails' = pollFails + 1
  /\ UNCHANGED <<page, uploadId, status, error, activeTab, fu, uploads,
                 poller, timers, pollSeq, srv, notified, termRecv,
                 nDrops, nSwitch>>

\* pollStatus after the await: the response (or the rejection) of request r.
\* "throw" is a request that failed (the catch logs it); a response whose
\* success flag is false or whose data is missing is skipped the same way.
pollStatus(r) ==
  /\ r \in polls
  /\ r.ans # "none"
  /\ IF r.ans = "throw"
       THEN PollCatch(r)
     ELSE IF Reported(r.ans)
       THEN \* onStatusUpdate(newStatus); clearInterval(intervalId)
            /\ Commit(uploadId, r.ans, error, activeTab, polls \ {r},
                      ClearedBy(r), fu.uploading)
            /\ notified' = notified \cup
                 {[inst |-> r.inst, id |-> r.id, seq |-> r.seq]}
            /\ termRecv' = termRecv \cup {[inst |-> r.inst, id |-> r.id]}
            /\ pollFails' = 0
            /\ UNCHANGED <<page, uploads, srv, nDrops, nSwitch>>
     ELSE /\ polls' = polls \ {r}
          /\ termRecv' = IF r.ans \in Terminal
                           THEN termRecv \cup {[inst |-> r.inst, id |-> r.id]}
                         ELSE termRecv
          /\ pollFails' = 0
          /\ UNCHANGED <<page, uploadId, status, error, activeTab, fu, uploads,
                         poller, timers, pollSeq, srv, notified, nDrops, nSwitch>>

\* ---- the server
\* The status of an upload record moves pending -> processing ->
\* {completed | failed} and stays terminal.  The client sees the record only
\* through the answers to its status requests, so the record is advanced
\* when a request is answered; the client handles the two non-terminal
\* statuses alike, and a record is created as "processing" here.
NextStatus(s) ==
  IF s \in NonTerminal THEN {s} \cup Terminal ELSE {s}

\* GET /api/v1/status/{id} is answered with the record's status, or the
\* request fails ("throw": network or server error)
Answers(r) == {"throw"} \cup NextStatus(srv[r.id])

ServerAnswer(r, a) ==
  /\ r \in polls
  /\ r.ans = "none"
  /\ a \in Answers(r)
  /\ polls' = (polls \ {r}) \cup {[r EXCEPT !.ans = a]}
  /\ srv' = IF a = "throw" THEN srv ELSE [srv EXCEPT ![r.id] = a]
  /\ UNCHANGED <<page, uploadId, status, error, activeTab, fu, uploads, poller,
                 timers, pollSeq, notified, termRecv, pollFails, nDrops, nSwitch>>

\* the variables the upload flow does not write
Rest == <<sessionVars, viewVars, histVars, obsVars>>

Next ==
  \/ (\E size \in Sizes : onDrop(size)) /\ UNCHANGED Rest
  \/ (\E u \in uploads, id \in Ids : UploadSuccess(u, id)) /\ UNCHANGED Rest
  \/ (\E u \in uploads, msg \in ErrorMessages : UploadError(u, msg))
       /\ UNCHANGED Rest
  \/ onDismiss /\ UNCHANGED Rest
  \/ handleReset /\ UNCHANGED Rest
  \/ (\E t \in Tabs : setActiveTab(t)) /\ UNCHANGED Rest
  \/ (\E t \in timers : Tick(t)) /\ UNCHANGED Rest
  \/ (\E r \in polls : pollStatus(r)) /\ UNCHANGED Rest
  \/ (\E r \in polls, a \in Statuses \cup {"throw"} : ServerAnswer(r, a))
       /\ UNCHANGED Rest

Spec == Init /\ [][Next]_vars

\* the event loop runs the tasks that are ready: an active interval fires,
\* and the continuation of an answered request runs.  Whether and how the
\* server answers is left open.
FairSpec ==
  /\ Spec
  /\ WF_vars((\E t \in timers : Tick(t)) /\ UNCHANGED Rest)
  /\ WF_vars((\E r \in polls : pollStatus(r)) /\ UNCHANGED Rest)

\* ======================= the session store (AuthProvider) ================
Details == {NoDetail, ServerDetail}
Routes == {"/login", "/dashboard", "/select-gst-type"}

\* an error object: its message and error.response?.data?.detail
AxiosError(d) == [message |-> "Request failed", detail |-> d]
\* new Error(m): an Error has no response
NewError(m) == [message |-> m, detail |-> NoDetail]

\* a login catch that passes the caught error on unchanged
LoginCatch_Rethrows(e) == e

\* login's catch: throw new Error(error.response?.data?.detail || 'Login failed')
LoginCatch(e) ==
  NewError(IF e.detail # NoDetail /\ e.detail # "" THEN e.detail ELSE "Login failed")

\* signup's catch: throw new Error(error.response?.data?.detail || 'Signup failed')
SignupCatch(e) ==
  NewError(IF e.detail # NoDetail /\ e.detail # "" THEN e.detail ELSE "Signup failed")

\* config.headers.Authorization is left unset
NoHeader == "<no header>"

\* an interceptor that sets the header whether or not a token is stored
Bearer_Always(tok) == "Bearer " \o tok

\* the request interceptor: if (token) Authorization = `Bearer ${token}`
Bearer(tok) ==
  IF tok # NoToken /\ tok # "" THEN "Bearer " \o tok ELSE NoHeader

\* a request sent through the api instance while the stored token is tok;
\* prev (history): the token stored when the function it belongs to was called
AuthReq(kind, api, call, via, tok, prev) ==
  [kind |-> kind, api |-> api, call |-> call, via |-> via, hdr |-> Bearer(tok),
   prev |-> prev]

\* the render that follows the store's state updates
SessionCommit(usr, ld, rt) ==
  /\ user' = usr
  /\ loading' = ld
  /\ route' = rt
  /\ dash' = DashboardView(rt, ld, usr)

\* the session store right after construction, before its mount effect
InitAuth ==
  /\ FlowAtRest(FALSE)
  /\ outAt = Never
  /\ token \in {NoToken, "tokenA"}
  /\ user = NoUser
  /\ loading = TRUE
  /\ authMounted = FALSE
  /\ authReqs = {}
  /\ thrown = {}
  /\ nCalls = 0
  /\ route \in {"/login", "/dashboard"}
  /\ dash = DashboardView(route, loading, user)
  /\ ViewIdle
  /\ HistIdle

\* a mount effect that asks the server without looking for a token
checkAuth_AlwaysAsks ==
  /\ ~authMounted
  /\ authMounted' = TRUE
  /\ authReqs' = authReqs \cup {AuthReq("checkAuth", "me", 0, "none", token, token)}
  /\ UNCHANGED <<token, user, loading, thrown, nCalls, route, dash>>

\* useEffect(() => { checkAuth() }, []): up to the first await
checkAuth ==
  /\ ~authMounted
  /\ authMounted' = TRUE
  /\ IF token # NoToken
       THEN /\ authReqs' = authReqs \cup
                 {AuthReq("checkAuth", "me", 0, "none", token, token)}
            /\ UNCHANGED <<user, loading, route, dash>>
       ELSE /\ authReqs' = authReqs
            /\ SessionCommit(user, FALSE, route)
  /\ UNCHANGED <<token, thrown, nCalls>>

\* checkAuth after getCurrentUser() resolved
checkAuthOk(r) ==
  /\ r \in authReqs /\ r.kind = "checkAuth"
  /\ authReqs' = authReqs \ {r}
  /\ SessionCommit(TheUser, FALSE, route)
  /\ UNCHANGED <<token, authMounted, thrown, nCalls>>

\* checkAuth after getCurrentUser() rejected
checkAuthFail(r) ==
  /\ r \in authReqs /\ r.kind = "checkAuth"
  /\ authReqs' = authReqs \ {r}
  /\ token' = NoToken
  /\ SessionCommit(user, FALSE, route)
  /\ UNCHANGED <<authMounted, thrown, nCalls>>

\* login(data) called by a page: up to await loginApi(data)
login ==
  /\ nCalls < MaxCalls
  /\ nCalls' = nCalls + 1
  /\ authReqs' = authReqs \cup
       {AuthReq("login", "login", nCalls + 1, "none", token, token)}
  /\ UNCHANGED <<token, user, loading, authMounted, thrown, route, dash>>

\* loginApi resolved: the token is persisted, then getCurrentUser() is sent
loginApiOk(r, tk) ==
  /\ r \in authReqs /\ r.kind = "login" /\ r.api = "login"
  /\ token' = tk
  /\ authReqs' = (authReqs \ {r}) \cup
       {AuthReq("login", "me", r.call, r.via, tk, r.prev)}
  /\ UNCHANGED <<user, loading, authMounted, thrown, nCalls, route, dash>>

\* the error that reaches the caller when a request of login rejected with
\* detail d: through login's catch and, inside signup, through signup's too
LoginThrows(r, d) ==
  IF r.via = "signup"
    THEN [call |-> r.call, op |-> "signup",
          msg |-> SignupCatch(LoginCatch(AxiosError(d))).message]
  ELSE [call |-> r.call, op |-> "login",
        msg |-> LoginCatch(AxiosError(d)).message]

\* loginApi rejected (credentials refused, or no response at all)
loginApiFail(r, d) ==
  /\ r \in authReqs /\ r.kind = "login" /\ r.api = "login"
  /\ authReqs' = authReqs \ {r}
  /\ thrown' = thrown \cup {LoginThrows(r, d)}
  /\ UNCHANGED <<token, user, loading, authMounted, nCalls, route, dash>>

\* login after getCurrentUser() resolved: setUser, router.push
loginMeOk(r) ==
  /\ r \in authReqs /\ r.kind = "login" /\ r.api = "me"
  /\ authReqs' = authReqs \ {r}
  /\ SessionCommit(TheUser, loading, "/select-gst-type")
  /\ UNCHANGED <<token, authMounted, thrown, nCalls>>

\* login after getCurrentUser() rejected
loginMeFail(r, d) ==
  /\ r \in authReqs /\ r.kind = "login" /\ r.api = "me"
  /\ authReqs' = authReqs \ {r}
  /\ thrown' = thrown \cup {LoginThrows(r, d)}
  /\ UNCHANGED <<token, user, loading, authMounted, nCalls, route, dash>>

\* signup(data) called by a page: up to await signupApi(data)
signup ==
  /\ nCalls < MaxCalls
  /\ nCalls' = nCalls + 1
  /\ authReqs' = authReqs \cup
       {AuthReq("signup", "signup", nCalls + 1, "signup", token, token)}
  /\ UNCHANGED <<token, user, loading, authMounted, thrown, route, dash>>

\* signupApi resolved: await login({username, password})
signupApiOk(r) ==
  /\ r \in authReqs /\ r.kind = "signup"
  /\ authReqs' = (authReqs \ {r}) \cup
       {AuthReq("login", "login", r.call, "signup", token, token)}
  /\ UNCHANGED <<token, user, loading, authMounted, thrown, nCalls, route, dash>>

\* signupApi rejected
signupApiFail(r, d) ==
  /\ r \in authReqs /\ r.kind = "signup"
  /\ authReqs' = authReqs \ {r}
  /\ thrown' = thrown \cup
       {[call |-> r.call, op |-> "signup", msg |-> SignupCatch(AxiosError(d)).message]}
  /\ UNCHANGED <<token, user, loading, authMounted, nCalls, route, dash>>

\* a logout that only forgets the user
logout_KeepsToken ==
  /\ SessionCommit(NoUser, loading, "/login")
  /\ UNCHANGED <<token, authMounted, authReqs, thrown, nCalls>>

\* removeItem('access_token'); setUser(null); router.push('/login')
logout ==
  /\ token' = NoToken
  /\ SessionCommit(NoUser, loading, "/login")
  /\ UNCHANGED <<authMounted, authReqs, thrown, nCalls>>

\* a redirect test that ignores authLoading
ShouldRedirect_NoLoadingTest(ld, usr) == usr = NoUser

\* DashboardPage's effect: if (!authLoading && !user) router.push('/login')
ShouldRedirect(ld, usr) == ~ld /\ usr = NoUser

DashboardEffect ==
  /\ route = "/dashboard"
  /\ ShouldRedirect(loading, user)
  /\ SessionCommit(user, loading, "/login")
  /\ UNCHANGED <<token, authMounted, authReqs, thrown, nCalls>>

\* the user opens the dashboard route
OpenDashboard ==
  /\ route # "/dashboard"
  /\ authMounted
  /\ SessionCommit(user, loading, "/dashboard")
  /\ UNCHANGED <<token, authMounted, authReqs, thrown, nCalls>>

\* the variables the session store does not write
AuthRest == <<flowVars, viewVars, histVars, obsVars>>

NextAuth ==
  \/ checkAuth /\ UNCHANGED AuthRest
  \/ (\E r \in authReqs : checkAuthOk(r)) /\ UNCHANGED AuthRest
  \/ (\E r \in authReqs : checkAuthFail(r)) /\ UNCHANGED AuthRest
  \/ login /\ UNCHANGED AuthRest
  \/ (\E r \in authReqs, tk \in Tokens : loginApiOk(r, tk)) /\ UNCHANGED AuthRest
  \/ (\E r \in authReqs, d \in Details : loginApiFail(r, d)) /\ UNCHANGED AuthRest
  \/ (\E r \in authReqs : loginMeOk(r)) /\ UNCHANGED AuthRest
  \/ (\E r \in authReqs, d \in Details : loginMeFail(r, d)) /\ UNCHANGED AuthRest
  \/ signup /\ UNCHANGED AuthRest
  \/ (\E r \in authReqs : signupApiOk(r)) /\ UNCHANGED AuthRest
  \/ (\E r \in authReqs, d \in Details : signupApiFail(r, d)) /\ UNCHANGED AuthRest
  \/ logout /\ outAt' = nCalls /\ UNCHANGED <<flowVars, viewVars, histVars>>
  \/ DashboardEffect /\ UNCHANGED AuthRest
  \/ OpenDashboard /\ UNCHANGED AuthRest

SpecAuth == InitAuth /\ [][NextAuth]_vars

\* ================== what ProcessingStatus displays ========================
\* response.data.progress: a number, or undefined when the field is missing
Undefined == -1
Progresses == {Undefined, 0, 25, 30, 50, 75, 100}
ViewStatuses == {"processing", "completed", "failed"}

\* newProgress || 0
ProgressOr0(p) == IF p = Undefined \/ p = 0 THEN 0 ELSE p

\* a label chosen by range instead of by exact value
Label_ByRange(p, old) ==
  IF p >= 100 THEN "Processing complete!"
  ELSE IF p >= 75 THEN "Validating data..."
  ELSE IF p >= 50 THEN "Classifying transactions..."
  ELSE IF p >= 25 THEN "Reading Excel file..."
  ELSE old

\* the if / else-if chain on newProgress === 25, 50, 75, 100
Label(p, old) ==
  IF p = 25 THEN "Reading Excel file..."
  ELSE IF p = 50 THEN "Classifying transactions..."
  ELSE IF p = 75 THEN "Validating data..."
  ELSE IF p = 100 THEN "Processing complete!"
  ELSE old

\* a poller that drops every response
Accepted_None(kind) == FALSE

\* if (response.success && response.data)
Accepted(kind) == kind = "ok"

\* a ProcessingStatus instance was just mounted for an upload
InitView ==
  /\ FlowAtRest(FALSE)
  /\ Established
  /\ disp = NewDisplay
  /\ vmounted = TRUE /\ vtimer = FALSE
  /\ vreqs = {} /\ vseq = 0
  /\ vshown = 0 /\ vconsumed = {} /\ voverlap = FALSE
  /\ HistIdle

\* the effect on mount: pollStatus() at once, then setInterval
PollerEffect ==
  /\ vmounted /\ vseq = 0
  /\ vseq' = 1
  /\ vreqs' = {1}
  /\ vtimer' = TRUE
  /\ UNCHANGED <<disp, vmounted, vshown, vconsumed, voverlap>>

\* the interval fires: pollStatus() up to await getStatus(uploadId)
ViewTick ==
  /\ vtimer
  /\ vseq < MaxViewPolls
  /\ vseq' = vseq + 1
  /\ vreqs' = vreqs \cup {vseq + 1}
  /\ voverlap' = (voverlap \/ vreqs # {})
  /\ UNCHANGED <<disp, vmounted, vtimer, vshown, vconsumed>>

\* pollStatus after getStatus answered request r: kind is "throw" (rejected),
\* "nodata" (success false or no data) or "ok" with status st and progress pg
pollResponse(r, kind, st, pg) ==
  /\ r \in vreqs
  /\ vreqs' = vreqs \ {r}
  /\ IF kind # "throw" /\ Accepted(kind) /\ vmounted
       THEN /\ disp' = [status |-> st, progress |-> ProgressOr0(pg),
                        message |-> Label(pg, disp.message)]
            /\ vshown' = r
            /\ vconsumed' = vconsumed \cup {r}
            \* a terminal status: clearInterval, and onStatusUpdate makes the
            \* page replace the progress view
            /\ vtimer' = IF st \in Terminal THEN FALSE ELSE vtimer
            /\ vmounted' = (st \notin Terminal)
       ELSE /\ vconsumed' = IF kind = "ok" /\ vmounted
                              THEN vconsumed \cup {r} ELSE vconsumed
            /\ UNCHANGED <<disp, vmounted, vtimer, vshown>>
  /\ UNCHANGED <<vseq, voverlap>>

\* the variables the display does not write
ViewRest == <<flowVars, sessionVars, histVars, obsVars>>

NextView ==
  \/ PollerEffect /\ UNCHANGED ViewRest
  \/ ViewTick /\ UNCHANGED ViewRest
  \/ (\E r \in vreqs : pollResponse(r, "throw", "processing", 0))
       /\ UNCHANGED ViewRest
  \/ (\E r \in vreqs : pollResponse(r, "nodata", "processing", 0))
       /\ UNCHANGED ViewRest
  \/ (\E r \in vreqs, st \in ViewStatuses, pg \in Progresses :
         pollResponse(r, "ok", st, pg)) /\ UNCHANGED ViewRest

SpecView == InitView /\ [][NextView]_vars

\* ======================= the history view (FileHistory) ==================
\* a mount effect that fetches nothing
FetchOnMount_None(i) == {}

\* useEffect(() => { fetchUploads() }, []): the requests one mount issues
FetchOnMount(i) == {[inst |-> i]}

InitHist ==
  /\ FlowAtRest(TRUE)
  /\ Established
  /\ ViewIdle
  /\ HistIdle

\* the flow variables other than the active tab
FlowButTab == <<page, uploadId, status, error, fu, uploads, poller, timers,
                polls, pollSeq, srv, notified, termRecv, pollFails, nDrops,
                nSwitch>>

\* the history tab is opened (tab button, or handleReset's
\* setActiveTab('history')): FileHistory is mounted and its effect runs
ShowHistory ==
  /\ activeTab = "upload"
  /\ hist.inst < MaxMounts
  /\ activeTab' = "history"
  /\ hist' = [mounted |-> TRUE, inst |-> hist.inst + 1, uploads |-> NoList,
              loading |-> TRUE, error |-> ""]
  /\ hreqs' = hreqs \cup FetchOnMount(hist.inst + 1)
  /\ hissued' = [hissued EXCEPT ![hist.inst + 1] =
                   @ + Cardinality(FetchOnMount(hist.inst + 1))]
  /\ UNCHANGED srvList

\* the upload tab is opened: FileHistory is unmounted
ShowUpload ==
  /\ activeTab = "history"
  /\ activeTab' = "upload"
  /\ hist' = [hist EXCEPT !.mounted = FALSE]
  /\ UNCHANGED <<hreqs, srvList, hissued>>

\* the server's list changes (a new upload, a status change)
ListChange ==
  /\ srvList < MaxChanges
  /\ srvList' = srvList + 1
  /\ UNCHANGED <<activeTab, hist, hreqs, hissued>>

\* fetchUploads after getUserUploads() resolved with the current list; the
\* state setters of an unmounted instance have no effect
fetchUploadsOk(r) ==
  /\ r \in hreqs
  /\ hreqs' = hreqs \ {r}
  /\ hist' = IF hist.mounted /\ hist.inst = r.inst
               THEN [hist EXCEPT !.uploads = srvList, !.loading = FALSE]
             ELSE hist
  /\ UNCHANGED <<activeTab, srvList, hissued>>

\* fetchUploads after getUserUploads() rejected
fetchUploadsFail(r) ==
  /\ r \in hreqs
  /\ hreqs' = hreqs \ {r}
  /\ hist' = IF hist.mounted /\ hist.inst = r.inst
               THEN [hist EXCEPT !.error = "Failed to load file history",
                                 !.loading = FALSE]
             ELSE hist
  /\ UNCHANGED <<activeTab, srvList, hissued>>

\* the variables the history view does not write
HistRest == <<FlowButTab, sessionVars, viewVars, obsVars>>

NextHist ==
  \/ ShowHistory /\ UNCHANGED HistRest
  \/ ShowUpload /\ UNCHANGED HistRest
  \/ ListChange /\ UNCHANGED HistRest
  \/ (\E r \in hreqs : fetchUploadsOk(r)) /\ UNCHANGED HistRest
  \/ (\E r \in hreqs : fetchUploadsFail(r)) /\ UNCHANGED HistRest

SpecHist == InitHist /\ [][NextHist]_vars

\* ---------------------------------------------------------------------------
\* Properties
\* ---------------------------------------------------------------------------
PollerInsts == 1..poller.inst
NotifyCount(i) == Cardinality({n \in notified : n.inst = i})
TermSeen(i) == \E t \in termRecv : t.inst = i
TermIds == {t.id : t \in termRecv}
\* the status-fetch requests issued by the step
Issued == {r \in polls' : r.seq > pollSeq}
\* the views the upload tab renders
Views ==
  (IF ShowError(error, activeTab) THEN {"error"} ELSE {})
  \cup (IF ShowFileUpload(uploadId, error, activeTab) THEN {"upload"} ELSE {})
  \cup (IF ShowProcessing(uploadId, status, activeTab) THEN {"processing"} ELSE {})
  \cup (IF ShowDownload(uploadId, status, activeTab) THEN {"download"} ELSE {})
  \cup (IF ShowFailed(uploadId, status, activeTab) THEN {"failed"} ELSE {})

\* C1: every poller instance that has handled a terminal response
\* (completed or failed) has invoked onStatusUpdate exactly once in total.
C1_NotifiedExactlyOnce ==
  \A i \in PollerInsts : TermSeen(i) => NotifyCount(i) = 1

\* C2: once a terminal response for an upload has been handled, no interval
\* that polls this upload is left active by the handling step, and no step
\* (tick, mount or re-run of the polling effect) issues a status-fetch request
\* for it afterwards.
C2_NoRequestAfterTerminal ==
  [][ /\ \A t \in timers' : t.id \notin TermIds'
      /\ \A r \in Issued : r.id \notin TermIds' ]_vars

C2_Witness ==
  /\ termRecv # {}
  /\ pollSeq < MaxPolls
  /\ \E t \in termRecv : uploadId = t.id /\ activeTab = "upload"

\* C3: a step that handles a failed status-fetch request leaves the active
\* intervals as they were (the next tick still polls), does not invoke
\* onStatusUpdate and changes nothing of the page state, error included;
\* this holds whatever the number of failures handled before.
C3_PollFailureSwallowed ==
  [][ \A r \in polls :
        (r.ans = "throw" /\ r \notin polls') =>
          /\ timers' = timers
          /\ notified' = notified
          /\ <<uploadId, status, error, activeTab>>' =
               <<uploadId, status, error, activeTab>>
          /\ poller' = poller
          /\ (TimerOf(poller) \in timers /\ pollSeq < MaxPolls
                => ENABLED Tick(TimerOf(poller))) ]_vars

C3_Witness ==
  /\ pollFails >= 2
  /\ poller.mounted
  /\ TimerOf(poller) \in timers
  /\ error = NoError
  /\ notified = {}

\* C4: a drop of a file larger than MAX_FILE_SIZE reports the size error to
\* the page and starts no upload request; a drop of a file of exactly
\* MAX_FILE_SIZE bytes starts an upload request and reports no error.
C4_OversizeRejected ==
  [][ /\ \A size \in Sizes :
           (size > MAX_FILE_SIZE /\ onDrop(size)) =>
             /\ uploads' = uploads
             /\ error' = SizeMessage
             /\ uploadId' = Null
      /\ onDrop(MAX_FILE_SIZE) =>
           /\ \E u \in uploads' \ uploads : u.size = MAX_FILE_SIZE
           /\ error' = error ]_vars

C4_Witness == error = SizeMessage /\ uploads = {} /\ nDrops = 1

\* C5: a step that unmounts the poller before it handled a terminal response
\* clears its interval and cancels none of the requests in flight; every
\* status-fetch request is issued by the mounted poller instance, never by an
\* unmounted one; and a terminal response to a request of an instance that
\* is no longer mounted still invokes onStatusUpdate.
C5_UnmountStopsPolling ==
  [][ /\ (poller.mounted /\ ~poller'.mounted
            /\ \A t \in termRecv' : t.inst # poller.inst) =>
           /\ timers' = {}
           /\ \A r \in polls : r.inst = poller.inst => r \in polls'
      /\ \A r \in Issued :
           poller'.mounted /\ r.inst = poller'.inst /\ r.gen = poller'.gen
      /\ \A r \in polls :
           (r.ans \in Terminal /\ r \notin polls'
              /\ ~(poller.mounted /\ poller.inst = r.inst)) =>
             /\ status' = r.ans
             /\ \E n \in notified' : n.seq = r.seq ]_vars

C5_Witness ==
  /\ ~poller.mounted
  /\ timers = {}
  /\ \E r \in polls : r.inst = poller.inst
  /\ ~TermSeen(poller.inst)
  /\ pollSeq < MaxPolls

\* C6: at most one upload request is in flight at any time.
C6_OneUploadInFlight == Cardinality(uploads) <= 1

\* C7: with the upload tab active, exactly one of the five views (error
\* banner, submission unit, progress view, download view, failure view) is
\* rendered, and the mounted components are the rendered ones.
C7_ExactlyOneView ==
  /\ activeTab = "upload" => Cardinality(Views) = 1
  /\ fu.mounted <=> "upload" \in Views
  /\ poller.mounted <=> "processing" \in Views

C7_Witness ==
  /\ activeTab = "upload"
  /\ Views = {"error"}
  /\ status = "completed"

\* C8: a successful submission that returns identifier id leaves the page
\* with uploadId = id, status processing and no error, which is the progress
\* mode; when the upload tab is shown the poller is mounted and polls id.
C8_SuccessEntersProgress ==
  [][ \A u \in uploads, id \in Ids :
        UploadSuccess(u, id) =>
          /\ uploadId' = id
          /\ status' = "processing"
          /\ error' = NoError
          /\ ShowProcessing(uploadId', status', "upload")
          /\ activeTab' = "upload" =>
               /\ poller'.mounted
               /\ poller'.uploadId = id
               /\ TimerOf(poller') \in timers' ]_vars

\* C9: when a terminal status is reported while the progress view is shown,
\* the page keeps its upload identifier and shows the download view
\* (completed) or the failure view (failed) for it, the poller is unmounted,
\* no interval is left and the step issues no request.
C9_TerminalLeavesProgress ==
  [][ \A r \in polls :
        (r.ans \in Terminal /\ r \notin polls'
           /\ ShowProcessing(uploadId, status, activeTab)) =>
          /\ uploadId' = uploadId
          /\ status' = r.ans
          /\ r.ans = "completed" => Views' = {"download"}
          /\ r.ans = "failed" => Views' = {"failed"}
          /\ ~poller'.mounted
          /\ timers' = {}
          /\ Issued = {} ]_vars

C9_Witness ==
  /\ Views = {"download"}
  /\ \E n \in notified : n.id = uploadId /\ n.inst = poller.inst
  /\ ~poller.mounted

\* C10: a reset sets uploadId to none, status to the empty string and error
\* to none, so that the upload tab renders the submission unit; on the
\* dashboard it makes history the active tab, on the home page the tab state
\* is left alone and the submission unit is mounted; requests in flight and
\* the server are untouched.
C10_ResetClearsState ==
  [][ handleReset =>
        /\ uploadId' = Null
        /\ status' = ""
        /\ error' = NoError
        /\ ShowFileUpload(uploadId', error', "upload")
        /\ page = "dashboard" => activeTab' = "history" /\ ~fu'.mounted
        /\ page = "home" => activeTab' = activeTab /\ fu'.mounted
        /\ ~poller'.mounted
        /\ <<uploads, polls, srv, timers>>' = <<uploads, polls, srv, timers>> ]_vars

C10_Witness ==
  /\ page = "dashboard"
  /\ nDrops = 1
  /\ uploads = {}
  /\ notified # {}
  /\ uploadId = Null /\ status = "" /\ error = NoError
  /\ activeTab = "history"

\* C11: a failed submission (oversize drop or failed upload request) leaves
\* error = the message, uploadId = null and status = '' with neither the
\* submission unit nor the progress view mounted; dismissing the error changes
\* only error and brings the submission unit back.
C11_FailureEntersErrorMode ==
  [][ /\ \A u \in uploads, msg \in ErrorMessages :
           UploadError(u, msg) =>
             /\ error' = msg /\ uploadId' = Null /\ status' = ""
             /\ ~fu'.mounted /\ ~poller'.mounted
      /\ \A size \in Sizes :
           (size # NoFile /\ SizeRejected(size) /\ onDrop(size)) =>
             /\ error' = SizeMessage /\ uploadId' = Null /\ status' = ""
             /\ ~fu'.mounted /\ ~poller'.mounted
      /\ onDismiss =>
             /\ error' = NoError
             /\ <<uploadId, status, activeTab>>' = <<uploadId, status, activeTab>>
             /\ fu'.mounted /\ ~poller'.mounted
             /\ ShowFileUpload(uploadId', error', activeTab') ]_vars

\* an upload request failed, the error was dismissed and the submission unit
\* is mounted again
C11_Witness ==
  /\ nDrops = 1
  /\ uploads = {}
  /\ \A i \in Ids : srv[i] = "none"
  /\ error = NoError /\ uploadId = Null /\ status = ""
  /\ fu.mounted /\ fu.inst = 2

\* ---- the session store
CheckAuthReqs(rs) == {r \in rs : r.kind = "checkAuth"}

\* C12: the mount effect issues exactly one identity request when a token is
\* persisted and none otherwise; loading is true until that attempt has
\* completed (or until the effect ran without a token), turns false at that
\* moment and never changes again; a failed attempt removes the token and
\* does not set the user.
C12_MountResolvesOnce ==
  /\ []((~authMounted \/ CheckAuthReqs(authReqs) # {}) => loading)
  /\ [][ /\ checkAuth =>
             IF token # NoToken
               THEN /\ Cardinality(authReqs' \ authReqs) = 1
                    /\ CheckAuthReqs(authReqs') = authReqs' \ authReqs
                    /\ loading'
               ELSE authReqs' = authReqs /\ ~loading'
         /\ ~checkAuth => CheckAuthReqs(authReqs') \subseteq CheckAuthReqs(authReqs)
         /\ authMounted => authMounted'
         /\ (\E r \in CheckAuthReqs(authReqs) : r \notin authReqs') =>
               loading /\ ~loading'
         /\ loading' # loading =>
               /\ loading /\ ~loading'
               /\ \/ checkAuth
                  \/ \E r \in CheckAuthReqs(authReqs) : r \notin authReqs'
         /\ \A r \in authReqs :
               checkAuthFail(r) => token' = NoToken /\ user' = user ]_vars

\* the persisted token was resolved to the user and loading is over
C12_Witness ==
  /\ authMounted /\ ~loading
  /\ nCalls = 0
  /\ token = "tokenA" /\ user = TheUser
  /\ authReqs = {}

\* C13: logout can always be called; it leaves the token absent and the user
\* null; called on an empty session it changes neither, so a second logout
\* right after a first one has no further effect on the session.
C13_LogoutIdempotent ==
  /\ [](ENABLED logout)
  /\ [][ logout =>
           /\ token' = NoToken /\ user' = NoUser
           /\ (token = NoToken /\ user = NoUser) =>
                 <<token, user>>' = <<token, user>> ]_vars
  /\ [][ (token = NoToken /\ user = NoUser) =>
           ENABLED (logout /\ <<token, user>>' = <<token, user>>) ]_vars

\* a login call completed, and the session it established was logged out
C13_Witness ==
  /\ nCalls = 1 /\ thrown = {} /\ authReqs = {}
  /\ ~loading
  /\ token = NoToken /\ user = NoUser
  /\ route = "/login"

\* C14: when loginApi rejects a login called by a page, login throws an
\* error whose message is the server's detail if there is one and 'Login
\* failed' otherwise, and the step writes neither the token nor the user
\* and does not navigate.
C14_LoginRejected ==
  [][ \A r \in authReqs, d \in Details :
        (r.via = "none" /\ loginApiFail(r, d)) =>
          /\ [call |-> r.call, op |-> "login",
              msg |-> IF d # NoDetail THEN d ELSE "Login failed"] \in thrown'
          /\ Cardinality(thrown') = Cardinality(thrown) + 1
          /\ <<token, user, route>>' = <<token, user, route>>
          /\ (token = NoToken /\ user = NoUser) =>
                (token' = NoToken /\ user' = NoUser /\ route' # "/select-gst-type") ]_vars

\* a login was rejected with a detail, and one without: both messages were
\* thrown and the session is empty
C14_Witness ==
  /\ [call |-> 1, op |-> "login", msg |-> ServerDetail] \in thrown
  /\ [call |-> 2, op |-> "login", msg |-> "Login failed"] \in thrown
  /\ token = NoToken /\ user = NoUser
  /\ route = "/login"

\* C15: signup sends login after a successful registration; when a request
\* of that login is rejected with detail D the error thrown by signup carries
\* D (and 'Login failed' without a detail); when the registration is
\* rejected with detail D the error carries D.
C15_SignupPropagatesLoginFailure ==
  [][ \A r \in authReqs, d \in Details :
        /\ (r.via = "signup" /\ (loginApiFail(r, d) \/ loginMeFail(r, d))) =>
             [call |-> r.call, op |-> "signup",
              msg |-> IF d # NoDetail THEN d ELSE "Login failed"] \in thrown'
        /\ (d # NoDetail /\ signupApiFail(r, d)) =>
             [call |-> r.call, op |-> "signup", msg |-> d] \in thrown'
        /\ signupApiOk(r) =>
             \E q \in authReqs' \ authReqs :
               q.kind = "login" /\ q.api = "login" /\ q.call = r.call ]_vars

\* C16: while loading is true the dashboard neither redirects to /login nor
\* renders its content; once loading is false its redirect effect fires if
\* and only if the user is null, and it renders its content only with a user.
C16_DashboardGate ==
  /\ [](loading => (~ENABLED DashboardEffect /\ dash # "content"))
  /\ []((route = "/dashboard" /\ ~loading) =>
          /\ ENABLED DashboardEffect <=> user = NoUser
          /\ dash = "content" <=> user # NoUser)
  /\ [](dash = "content" => (~loading /\ user # NoUser))
  /\ [][ DashboardEffect =>
           (~loading /\ user = NoUser /\ route' = "/login"
            /\ dash' = "unmounted") ]_vars

\* the dashboard rendered null for a resolved, empty session: the redirect
\* is due
C16_Witness ==
  /\ route = "/dashboard" /\ dash = "null"
  /\ authMounted /\ ~loading /\ user = NoUser
  /\ ENABLED DashboardEffect

\* ---- the display of ProcessingStatus
\* C17: the phase label changes only when a response with data reports
\* progress exactly 25, 50, 75 or 100 (reading, classifying, validating,
\* complete); for every other reported progress the label stays as it was,
\* and the displayed progress becomes the reported number.
C17_LabelOnlyAtMilestones ==
  [][ /\ \A r \in vreqs, st \in ViewStatuses, pg \in Progresses :
           (vmounted /\ pollResponse(r, "ok", st, pg)) =>
             /\ pg # Undefined => disp'.progress = pg
             /\ disp'.status = st
             /\ disp'.message =
                  CASE pg = 25 -> "Reading Excel file..."
                    [] pg = 50 -> "Classifying transactions..."
                    [] pg = 75 -> "Validating data..."
                    [] pg = 100 -> "Processing complete!"
                    [] OTHER -> disp.message
      /\ disp'.message # disp.message =>
           /\ vreqs' # vreqs
           /\ disp'.progress \in {25, 50, 75, 100} ]_vars

\* after a response with progress 25 another one reported 30: the number
\* moved on, the label stayed
C17_Witness ==
  /\ vmounted
  /\ Cardinality(vconsumed) >= 2
  /\ disp.progress = 30
  /\ disp.message = "Reading Excel file..."

\* the most recently issued request among those in ns
Latest(ns) == CHOOSE n \in ns : \A m \in ns : m <= n

\* C19 as stated: whatever the latencies, the response on display is the one
\* of the most recently issued request among those handled with data.
C19_DisplayFromLatestRequest ==
  vconsumed # {} => vshown = Latest(vconsumed)

\* C19: as long as no request was issued while an earlier one was still in
\* flight (every response arrived within the poll interval), the response on
\* display is the one of the most recently issued request handled with data.
C19_DisplayFromLatestWithoutOverlap ==
  (~voverlap /\ vconsumed # {}) => vshown = Latest(vconsumed)

\* two responses were handled one after the other, each before the next
\* request was issued
C19_Witness ==
  /\ ~voverlap
  /\ vmounted
  /\ vconsumed = {1, 2}
  /\ vshown = 2

\* ---- the history view
\* C18: every mount of the history view issues exactly one list-fetch
\* request and no request is issued at any other moment; once the response
\* has been displayed, the list on display does not change while that
\* instance stays mounted, whatever happens to the server's list.
C18_OneFetchPerMount ==
  /\ [](\A i \in 1..MaxMounts : hissued[i] = IF i <= hist.inst THEN 1 ELSE 0)
  /\ [][ /\ (hist'.mounted /\ hist'.inst # hist.inst) =>
             /\ Cardinality(hreqs' \ hreqs) = 1
             /\ \A r \in hreqs' \ hreqs : r.inst = hist'.inst
         /\ ~(hreqs' \subseteq hreqs) => (hist'.mounted /\ hist'.inst # hist.inst)
         /\ (hist.mounted /\ ~hist.loading /\ hist'.mounted
               /\ hist'.inst = hist.inst) =>
               (hist'.uploads = hist.uploads /\ ~hist'.loading) ]_vars

\* the second mount displays its list while the server's list has moved on
\* twice since
C18_Witness ==
  /\ hist.mounted /\ hist.inst = 2
  /\ ~hist.loading
  /\ hist.uploads = 0
  /\ srvList = 2
  /\ hreqs = {}

\* ---- recoverability by user actions
\* the page's view state
ViewState == [uid |-> uploadId, st |-> status, err |-> error, tab |-> activeTab]

\* mode (b): the submission unit is rendered
ModeB(v) == ShowFileUpload(v.uid, v.err, v.tab)

\* the view states one click on a control rendered in view state v leads to:
\* the error banner's dismiss, the reset of the download and the failed
\* view, and the dashboard's tab buttons
UserMoves(v) ==
  (IF ShowError(v.err, v.tab) THEN {[v EXCEPT !.err = NoError]} ELSE {})
  \cup (IF ShowDownload(v.uid, v.st, v.tab) \/ ShowFailed(v.uid, v.st, v.tab)
          THEN {[uid |-> Null, st |-> "", err |-> NoError,
                 tab |-> IF page = "dashboard" THEN "history" ELSE v.tab]}
        ELSE {})
  \cup (IF page = "dashboard" THEN {[v EXCEPT !.tab = t] : t \in Tabs} ELSE {})

\* the view states reachable from those in S by user actions alone
RECURSIVE UserReach(_)
UserReach(S) ==
  LET T == S \cup UNION {UserMoves(v) : v \in S}
  IN  IF T = S THEN S ELSE UserReach(T)

\* C20: from every reachable state of the page some sequence of the user
\* actions its views offer (dismiss, reset, tab buttons) leads to mode (b),
\* without any help from a poll response.
C20_UserCanRecover ==
  \E v \in UserReach({ViewState}) : ModeB(v)

\* ---- the request interceptor
\* C21: every request sent through the api instance carries Authorization:
\* Bearer <token> with the token stored at the moment it is sent, and no
\* Authorization header when none is stored; the identity fetch of login
\* carries the token login has just stored.
C21_BearerFromStoredToken ==
  [][ /\ \A q \in authReqs' \ authReqs :
           q.hdr = IF token' = NoToken THEN NoHeader ELSE "Bearer " \o token'
      /\ \A r \in authReqs, tk \in Tokens :
           loginApiOk(r, tk) =>
             \E q \in authReqs' \ authReqs :
               q.api = "me" /\ q.call = r.call /\ q.hdr = "Bearer " \o tk ]_vars

\* a login sent without a header was answered with tokenB and its identity
\* fetch is in flight with that token, next to a login sent without a header
C21_Witness ==
  /\ token = "tokenB"
  /\ \E q \in authReqs :
       q.kind = "login" /\ q.api = "me" /\ q.hdr = "Bearer tokenB"
  /\ \E q \in authReqs : q.api = "login" /\ q.hdr = NoHeader

\* ---- races of the upload flow
\* C22: the download view (the failure view) is shown for upload uploadId
\* only if the server reported completed (failed) for that same upload.
C22_TerminalViewForOwnUpload ==
  /\ ShowDownload(uploadId, status, activeTab) => srv[uploadId] = "completed"
  /\ ShowFailed(uploadId, status, activeTab) => srv[uploadId] = "failed"

\* ---- races of the session store
\* C23: whenever the in-memory user is set, a token is stored.
C23_UserImpliesToken ==
  user # NoUser => token # NoToken

\* C24: from a logout until the next call of login or signup the session is
\* empty: no user in memory and no token stored.
C24_EmptyAfterLogout ==
  outAt = nCalls => (user = NoUser /\ token = NoToken)

\* C25: a login that throws leaves the stored token as it was when login was
\* called and leaves the user null; in particular the token stored after the
\* credential request is not left behind when the identity fetch fails.
\* (Stated for a login that is the only call so far and the only request in
\* flight, so that nothing else has written the token meanwhile.)
C25_FailedLoginRestoresToken ==
  [][ \A r \in authReqs, d \in Details :
        (nCalls = 1 /\ authReqs = {r} /\ authMounted /\ outAt = Never
           /\ (loginApiFail(r, d) \/ loginMeFail(r, d))) =>
          (token' = r.prev /\ user' = user) ]_vars

\* ---- poll timers
\* C26: at most one interval is active at any time, and it is the one of the
\* current effect run of the mounted poller; every effect run leaves exactly
\* its own interval active, and an unmount leaves none.
C26_AtMostOneTimer ==
  /\ [](Cardinality(timers) <= 1)
  /\ [](\A t \in timers : poller.mounted /\ t = TimerOf(poller))
  /\ [][ /\ (poller'.mounted
               /\ <<poller'.inst, poller'.gen>> # <<poller.inst, poller.gen>>) =>
             timers' = {TimerOf(poller')}
         /\ ~poller'.mounted => timers' = {} ]_vars

\* the effect of the mounted poller has run a second time (the page
\* re-rendered) and one interval is active
C26_Witness ==
  /\ poller.mounted /\ poller.gen = 2
  /\ timers = {TimerOf(poller)}

\* ---- liveness of the upload flow
\* the server has answered a status request of the mounted poller for the
\* page's upload with a terminal status
TerminalAnswered ==
  /\ poller.mounted
  /\ \E r \in polls :
       r.inst = poller.inst /\ r.id = uploadId /\ r.ans \in Terminal

\* C27: the poller issues its first request in the step that mounts it; while
\* it stays mounted with its interval active its next request is due (up to
\* the bound of the model); and once a request of the mounted poller has been
\* answered with completed or failed, the page reaches the download or the
\* failure view, unless the progress view was left before.
C27_FlowCompletes ==
  /\ [][ (poller'.mounted /\ poller'.inst # poller.inst) =>
           (NewPoll(poller', pollSeq + 1) \in polls' /\ pollSeq' = pollSeq + 1) ]_vars
  /\ []((poller.mounted /\ timers # {} /\ pollSeq < MaxPolls) =>
          ENABLED Tick(TimerOf(poller)))
  /\ TerminalAnswered
       ~> (\/ ShowDownload(uploadId, status, activeTab)
           \/ ShowFailed(uploadId, status, activeTab)
           \/ ~poller.mounted)

\* the first status request did not end the flow, the second was answered
\* failed, and the failure view is shown for that upload
C27_Witness ==
  /\ ShowFailed(uploadId, status, activeTab)
  /\ srv[uploadId] = "failed"
  /\ nDrops = 1 /\ pollSeq = 2 /\ polls = {}
  /\ Cardinality(notified) = 1
====
